---- MODULE Spec2Model ----
(***************************************************************************)
(* Model of pkg/manager/member/startscript/v2/tikv_start_script.go.        *)
(*                                                                         *)
(* Text is a sequence of tokens (strings).  Every name, port, separator,   *)
(* blank, newline and shell variable reference is a token of its own, so   *)
(* "contains", "immediately after" and shell word splitting are questions  *)
(* about token sequences.  A template source is a sequence of lexed items: *)
(* literal text tokens and {{ ... }} actions with their trim markers.      *)
(* The first part renders the script as RenderTiKVStartScript does, the    *)
(* second part executes the rendered script statement by statement.        *)
(***************************************************************************)
EXTENDS Integers, Sequences, FiniteSets, TLC

VARIABLES tc, common, pc, script, err, ip, env, attempts, slept, out, argv

vars == <<tc, common, pc, script, err, ip, env, attempts, slept, out, argv>>

(***************************************************************************)
(* Bounds.                                                                 *)
(***************************************************************************)
MaxFlags == 2
MaxAttempts == 2
RandomMax == 9

(***************************************************************************)
(* Generic sequence helpers.                                               *)
(***************************************************************************)

Min(a, b) == IF a < b THEN a ELSE b

\* positions at which sub occurs in s as a contiguous subsequence
Occurrences(sub, s) ==
  {i \in 1..(Len(s) - Len(sub) + 1) : SubSeq(s, i, i + Len(sub) - 1) = sub}

Contains(s, sub) == Occurrences(sub, s) # {}

\* position of the first occurrence of sub in s, 0 when there is none
IndexOf(s, sub) ==
  IF Contains(s, sub)
  THEN CHOOSE i \in Occurrences(sub, s) : \A j \in Occurrences(sub, s) : i <= j
  ELSE 0

SeqsUpTo(S, n) == UNION {[1..k -> S] : k \in 0..n}

(***************************************************************************)
(* Constants of the packages the file imports.                             *)
(***************************************************************************)
DefaultPDClientPort == 2379
DefaultTiKVServerPort == 20160
DefaultTiKVStatusPort == 20180
StartScriptV2FeatureFlagWaitForDnsNameIpMatch == "WaitForDnsNameIpMatch"
TiKVDataVolumeMountPath == <<"/var/lib/tikv">>

PDMemberName(clusterName) == <<clusterName, "-pd">>
TiKVPeerMemberName(clusterName) == <<clusterName, "-tikv-peer">>

\* fmt.Sprintf("%s:%d", host, port)
SprintfHostPort(host, port) == host \o <<":", ToString(port)>>

\* filepath.Join(dir, sub): an empty element is ignored
FilepathJoin(dir, sub) == IF sub = <<>> THEN dir ELSE dir \o <<"/">> \o sub

(***************************************************************************)
(* The TidbCluster fields the renderer reads.                              *)
(***************************************************************************)
NoCluster == "<nil>"
ClusterNames == {"basic"}
ReferenceNames == {"basic", "ref"}
FeatureFlags == {StartScriptV2FeatureFlagWaitForDnsNameIpMatch, "PreferPDAddressesOverDiscovery"}
DynamicSettings == {"nil", "false", "true"}

TidbClusters ==
  [ Name : ClusterNames,
    Namespace : {"ns"},
    AcrossK8s : BOOLEAN,
    Cluster : {NoCluster} \cup ReferenceNames,
    HasPD : BOOLEAN,
    PreferIPv6 : BOOLEAN,
    ClusterDomain : {<<>>, <<"cluster.local">>},
    DataSubDir : {<<>>, <<"data">>},
    EnableDynamicConfiguration : DynamicSettings,
    StartScriptV2FeatureFlags : SeqsUpTo(FeatureFlags, MaxFlags),
    StartTimeout : {30, 60} ]

AcrossK8s(t) == t.AcrossK8s
Heterogeneous(t) == t.Cluster # NoCluster
WithoutLocalPD(t) == ~t.HasPD
PDStartTimeout(t) == t.StartTimeout

\* slices.Contains
SlicesContains(s, e) == \E i \in 1..Len(s) : s[i] = e

(***************************************************************************)
(* Topology resolution: lines 45-91 of RenderTiKVStartScript.              *)
(***************************************************************************)
NilAcrossK8s == [nil |-> TRUE, PDAddr |-> <<>>, DiscoveryAddr |-> <<>>]

ResultPlaceholder == <<"${result}">>

\* faulty variant: the sub-model is given the deferred placeholder
ModelAcrossK8sPlaceholderAddr(t) ==
  IF AcrossK8s(t)
  THEN [nil |-> FALSE,
        PDAddr |-> ResultPlaceholder,
        DiscoveryAddr |-> <<t.Name, "-discovery", ".", t.Namespace, ":", "10261">>]
  ELSE NilAcrossK8s

\* faulty variant: the sub-model is also built for a heterogeneous cluster
ModelAcrossK8sForHeterogeneous(t) ==
  IF AcrossK8s(t) \/ Heterogeneous(t)
  THEN [nil |-> FALSE,
        PDAddr |-> SprintfHostPort(PDMemberName(t.Name), DefaultPDClientPort),
        DiscoveryAddr |-> <<t.Name, "-discovery", ".", t.Namespace, ":", "10261">>]
  ELSE NilAcrossK8s

ModelAcrossK8s(t) ==
  IF AcrossK8s(t)
  THEN [nil |-> FALSE,
        PDAddr |-> SprintfHostPort(PDMemberName(t.Name), DefaultPDClientPort),
        DiscoveryAddr |-> <<t.Name, "-discovery", ".", t.Namespace, ":", "10261">>]
  ELSE NilAcrossK8s

\* faulty variant: the heterogeneous branch is tested first
ModelPDAddrHeterogeneousFirst(t) ==
  IF Heterogeneous(t) /\ WithoutLocalPD(t)
  THEN SprintfHostPort(PDMemberName(t.Cluster), DefaultPDClientPort)
  ELSE IF AcrossK8s(t) THEN ResultPlaceholder
       ELSE SprintfHostPort(PDMemberName(t.Name), DefaultPDClientPort)

\* faulty variant: the assignment of the placeholder is missing
ModelPDAddrWithoutPlaceholder(t) ==
  IF ~AcrossK8s(t) /\ Heterogeneous(t) /\ WithoutLocalPD(t)
  THEN SprintfHostPort(PDMemberName(t.Cluster), DefaultPDClientPort)
  ELSE SprintfHostPort(PDMemberName(t.Name), DefaultPDClientPort)

ModelPDAddr(t) ==
  IF AcrossK8s(t) THEN ResultPlaceholder
  ELSE IF Heterogeneous(t) /\ WithoutLocalPD(t)
       THEN SprintfHostPort(PDMemberName(t.Cluster), DefaultPDClientPort)
       ELSE SprintfHostPort(PDMemberName(t.Name), DefaultPDClientPort)

ListenHost(t) == IF t.PreferIPv6 THEN <<"[::]">> ELSE <<"0.0.0.0">>

\* fmt.Sprintf("${TIKV_POD_NAME}.%s.%s.svc", peerServiceName, tcNS)
PodServiceHost(t) ==
  <<"${TIKV_POD_NAME}", ".">> \o TiKVPeerMemberName(t.Name) \o <<".", t.Namespace, ".", "svc">>

AdvertiseHost(t) ==
  IF t.ClusterDomain # <<>>
  THEN PodServiceHost(t) \o <<".">> \o t.ClusterDomain
  ELSE PodServiceHost(t)

\* faulty variant: the cluster domain is not appended
AdvertiseStatusHostWithoutDomain(t) == PodServiceHost(t)

AdvertiseStatusHost(t) ==
  IF t.ClusterDomain # <<>>
  THEN PodServiceHost(t) \o <<".">> \o t.ClusterDomain
  ELSE PodServiceHost(t)

\* faulty variant: a nil pointer counts as enabled
DynamicConfigurationEnabledUnlessFalse(t) == t.EnableDynamicConfiguration # "false"

DynamicConfigurationEnabled(t) == t.EnableDynamicConfiguration = "true"

ExtraArgsList(t) ==
  IF DynamicConfigurationEnabled(t)
  THEN << <<"--advertise-status-addr=">>
          \o SprintfHostPort(AdvertiseStatusHost(t), DefaultTiKVStatusPort) >>
  ELSE <<>>

\* strings.Join(elems, " ")
RECURSIVE StringsJoin(_)
StringsJoin(elems) ==
  IF elems = <<>> THEN <<>>
  ELSE IF Len(elems) = 1 THEN elems[1]
  ELSE elems[1] \o <<" ">> \o StringsJoin(Tail(elems))

ModelExtraArgs(t) ==
  IF Len(ExtraArgsList(t)) > 0 THEN StringsJoin(ExtraArgsList(t)) ELSE <<>>

TiKVStartScriptModel(t) ==
  [ PDAddr |-> ModelPDAddr(t),
    Addr |-> SprintfHostPort(ListenHost(t), DefaultTiKVServerPort),
    StatusAddr |-> SprintfHostPort(ListenHost(t), DefaultTiKVStatusPort),
    AdvertiseHost |-> AdvertiseHost(t),
    AdvertiseAddr |-> SprintfHostPort(AdvertiseHost(t), DefaultTiKVServerPort),
    DataDir |-> FilepathJoin(TiKVDataVolumeMountPath, t.DataSubDir),
    Capacity |-> <<"${CAPACITY}">>,
    ExtraArgs |-> ModelExtraArgs(t),
    KVStartTimeout |-> <<ToString(PDStartTimeout(t))>>,
    AcrossK8s |-> ModelAcrossK8s(t) ]

WaitForDnsNameIpMatchOnStartup(t) ==
  SlicesContains(t.StartScriptV2FeatureFlags, StartScriptV2FeatureFlagWaitForDnsNameIpMatch)

(***************************************************************************)
(* text/template: lexed items, Parse, Must, Execute.                       *)
(* An item is [k, v, lt, rt]: k its kind, v its text token, field path or  *)
(* template name, lt / rt the "{{-" and "-}}" trim markers.                *)
(***************************************************************************)
NL == "\n"
SP == " "
Spaces == {" ", "  ", "    ", "\n"}

Text(s) == [k |-> "text", v |-> <<s>>, lt |-> FALSE, rt |-> FALSE]
Field(path) == [k |-> "field", v |-> path, lt |-> FALSE, rt |-> FALSE]
IfAction(path, l, r) == [k |-> "if", v |-> path, lt |-> l, rt |-> r]
EndAction(l, r) == [k |-> "end", v |-> <<>>, lt |-> l, rt |-> r]
TemplateAction(name) == [k |-> "template", v |-> <<name>>, lt |-> FALSE, rt |-> FALSE]
DefineAction(name) == [k |-> "define", v |-> <<name>>, lt |-> FALSE, rt |-> FALSE]

\* literal text given as its tokens
Lit(toks) == [i \in 1..Len(toks) |-> Text(toks[i])]

IsSpaceItem(it) == it.k = "text" /\ it.v[1] \in Spaces

NoError == "nil"
ParseError == "template: parse error"
ExecError == "template: execute error"

\* The one element of a singleton set.  A value bound by a quantifier is
\* evaluated once, so "The({F(x) : x \in {e}})" is F(e) with e computed
\* before F; the long scans below are written this way.
The(S) == CHOOSE x \in S : TRUE

\* left fold of Op over s[lo..hi], splitting the range in halves
RECURSIVE FoldRange(_, _, _, _, _)
FoldRange(Op(_, _), acc, s, lo, hi) ==
  IF lo > hi THEN acc
  ELSE IF lo = hi THEN Op(acc, s[lo])
  ELSE The({FoldRange(Op, left, s, ((lo + hi) \div 2) + 1, hi) :
              left \in {FoldRange(Op, acc, s, lo, (lo + hi) \div 2)}})

Fold(Op(_, _), acc, s) ==
  The({FoldRange(Op, a, t, 1, Len(t)) : a \in {acc}, t \in {s}})

\* concatenation of pieces[lo..hi]
RECURSIVE ConcatRange(_, _, _)
ConcatRange(pieces, lo, hi) ==
  IF lo > hi THEN <<>>
  ELSE IF lo = hi THEN pieces[lo]
  ELSE ConcatRange(pieces, lo, (lo + hi) \div 2)
       \o ConcatRange(pieces, ((lo + hi) \div 2) + 1, hi)

Concat(pieces) == The({ConcatRange(p, 1, Len(p)) : p \in {pieces}})

\* the lexer: "{{-" removes the white space that ends the text before the
\* action, "-}}" the white space that starts the text after it.  pend holds
\* the white space read since the last item that is not white space.
TrimStep(st, it) ==
  IF IsSpaceItem(it)
  THEN IF st.trim THEN st ELSE [st EXCEPT !.pend = @ \o <<it>>]
  ELSE [out |-> (IF it.lt THEN st.out ELSE st.out \o st.pend) \o <<it>>,
        pend |-> <<>>,
        trim |-> it.rt]

TrimSpace(items) ==
  LET st == Fold(TrimStep, [out |-> <<>>, pend |-> <<>>, trim |-> FALSE], items)
  IN st.out \o st.pend

\* the parser: {{define}} blocks go to defs, the rest is the root; a stray
\* {{end}} and a block left open are errors.  name is the {{define}} being
\* read ("" outside), depth the number of open blocks.
ParseStep(st, it) ==
  IF st.err # NoError THEN st
  ELSE IF it.k = "define"
       THEN IF st.depth > 0 THEN [st EXCEPT !.err = ParseError]
            ELSE [st EXCEPT !.name = it.v[1], !.body = <<>>, !.depth = 1]
  ELSE IF st.name # ""
       THEN IF it.k = "end" /\ st.depth = 1
            THEN [st EXCEPT !.defs = [n \in DOMAIN st.defs \cup {st.name} |->
                                        IF n = st.name THEN st.body ELSE st.defs[n]],
                            !.name = "", !.body = <<>>, !.depth = 0]
            ELSE [st EXCEPT !.body = @ \o <<it>>,
                            !.depth = IF it.k = "if" THEN @ + 1
                                      ELSE IF it.k = "end" THEN @ - 1 ELSE @]
  ELSE IF it.k = "end" /\ st.depth = 0 THEN [st EXCEPT !.err = ParseError]
  ELSE [st EXCEPT !.root = @ \o <<it>>,
                  !.depth = IF it.k = "if" THEN @ + 1
                            ELSE IF it.k = "end" THEN @ - 1 ELSE @]

ParseTree(items) ==
  LET st == Fold(ParseStep,
                 [root |-> <<>>, defs |-> <<>>, name |-> "", body |-> <<>>,
                  depth |-> 0, err |-> NoError],
                 items)
  IN IF st.err = NoError /\ st.depth # 0 THEN [st EXCEPT !.err = ParseError] ELSE st

IsEmptyTree(items) == \A i \in 1..Len(items) : IsSpaceItem(items[i])

\* template.New(name)
TemplateNew == [root |-> <<>>, defs |-> <<>>, err |-> NoError]

\* (*Template).Parse: the parsed source is added to the template; a root
\* that is not empty replaces the root parsed before
TemplateParse(t, src) ==
  IF t.err # NoError THEN t
  ELSE LET p == ParseTree(TrimSpace(src)) IN
       IF p.err # NoError THEN [t EXCEPT !.err = p.err]
       ELSE [ root |-> IF IsEmptyTree(p.root) /\ t.root # <<>> THEN t.root ELSE p.root,
              defs |-> [n \in DOMAIN t.defs \cup DOMAIN p.defs |->
                          IF n \in DOMAIN p.defs THEN p.defs[n] ELSE t.defs[n]],
              err |-> NoError ]

\* faulty variant: the error of Parse is dropped
MustNeverPanics(t) == FALSE

\* template.Must panics when the error is not nil
MustPanics(t) == t.err # NoError

LookupFails(data, path) ==
  \/ path[1] \notin DOMAIN data
  \/ Len(path) = 2 /\ (data[path[1]].nil \/ path[2] \notin DOMAIN data[path[1]])

Lookup(data, path) ==
  IF Len(path) = 1 THEN data[path[1]] ELSE data[path[1]][path[2]]

\* truth of a pipeline value: a nil pointer and an empty string are false
Truth(data, path) ==
  IF path = <<"AcrossK8s">> THEN ~Lookup(data, path).nil
  ELSE Lookup(data, path) # <<>>

\* (*Template).Execute: out is what has been written to the buffer, skip the
\* number of open blocks inside a false {{if}}; the first failure stops it
RECURSIVE Execute(_, _, _)
ExecStep(st, it, defs, data) ==
  IF st.err # NoError THEN st
  ELSE IF st.skip > 0
       THEN [st EXCEPT !.skip = IF it.k = "if" THEN @ + 1
                                ELSE IF it.k = "end" THEN @ - 1 ELSE @]
  ELSE IF it.k = "text" THEN [st EXCEPT !.out = @ \o it.v]
  ELSE IF it.k = "field"
       THEN IF LookupFails(data, it.v) THEN [st EXCEPT !.err = ExecError]
            ELSE [st EXCEPT !.out = @ \o Lookup(data, it.v)]
  ELSE IF it.k = "if"
       THEN IF LookupFails(data, it.v) THEN [st EXCEPT !.err = ExecError]
            ELSE [st EXCEPT !.skip = IF Truth(data, it.v) THEN 0 ELSE 1]
  ELSE IF it.k = "template"
       THEN IF it.v[1] \notin DOMAIN defs THEN [st EXCEPT !.err = ExecError]
            ELSE LET b == Execute(defs[it.v[1]], defs, data)
                 IN [st EXCEPT !.out = @ \o b.out, !.err = b.err]
  ELSE st

Execute(items, defs, data) ==
  LET st == Fold(LAMBDA a, it : ExecStep(a, it, defs, data),
                 [out |-> <<>>, err |-> NoError, skip |-> 0],
                 items)
  IN [out |-> st.out, err |-> st.err]

\* strings.ReplaceAll for a marker old of one item
StringsReplaceAll(s, old, new) ==
  Concat([i \in 1..Len(s) |-> IF <<s[i]>> = old THEN new ELSE <<s[i]>>])

(***************************************************************************)
(* The script fragments.                                                   *)
(***************************************************************************)
\* statements of the fragments, one token each
PodIdentityStmt == "TIKV_POD_NAME=${POD_NAME:-$HOSTNAME}"
EncodeStmt == "encoded_domain_url=$(echo $pd_url | base64 | tr \"\\n\" \" \" | sed \"s/ //g\")"
UntilStmt == "until result=$(wget -qO- -T 3 http://${discovery_url}/verify/${encoded_domain_url} 2>/dev/null | sed 's/http:\\/\\///g'); do"
EchoWaitStmt == "echo \"waiting for the verification of PD endpoints ...\""
SleepStmt == "sleep $((RANDOM % 5))"
NsLookupStmt == "nsLookupCmd=\"getent ahosts $componentDomain | sed -n 's/ *STREAM.*//p'\""
IfStoreLabelsStmt == "if [ ! -z \"${STORE_LABELS:-}\" ]; then"
EchoStartingStmt == "echo \"starting tikv-server ...\""
ArgsAssign == "ARGS=\""
LabelsAssign == "LABELS=\""
EchoOpen == "echo \""
Quote == "\""
Continuation == "\\\n"
ConfigFlag == "--config=/etc/tikv/tikv.toml"

\* fragments kept in common.go
dnsAwaitPart == Lit(<<"<dnsAwaitPart>">>)
CommonScriptStmt == "#!/bin/sh (componentCommonScript)"
componentCommonScript == Lit(<<CommonScriptStmt, NL>>)
DnsIpMatchLoopStmt == "while true; do ... done (componentCommonWaitForDnsIpMatchScript)"
componentCommonWaitForDnsIpMatchScript == Lit(<<NL, DnsIpMatchLoopStmt, NL>>)

tikvStartSubScript ==
  Lit(<<NL>>) \o <<DefineAction("AcrossK8sSubscript")>>
  \o Lit(<<NL, "pd_url=">>) \o <<Field(<<"AcrossK8s", "PDAddr">>)>>
  \o Lit(<<NL, EncodeStmt>>)
  \o Lit(<<NL, "discovery_url=">>) \o <<Field(<<"AcrossK8s", "DiscoveryAddr">>)>>
  \o Lit(<<NL, UntilStmt>>)
  \o Lit(<<NL, "    ", EchoWaitStmt>>)
  \o Lit(<<NL, "    ", SleepStmt>>)
  \o Lit(<<NL, "done", NL>>) \o <<EndAction(TRUE, FALSE)>>
  \o Lit(<<NL>>)

tikvWaitForDnsIpMatchSubScript ==
  Lit(<<NL, "componentDomain=">>) \o <<Field(<<"AdvertiseHost">>)>>
  \o Lit(<<NL, "waitThreshold=">>) \o <<Field(<<"KVStartTimeout">>)>>
  \o Lit(<<NL, NsLookupStmt, NL>>)
  \o componentCommonWaitForDnsIpMatchScript

tikvWaitForDnsOnlySubScript == <<>>

BaseFlags ==
  Lit(<<"--pd=">>) \o <<Field(<<"PDAddr">>)>> \o Lit(<<SP, Continuation>>)
  \o Lit(<<"--advertise-addr=">>) \o <<Field(<<"AdvertiseAddr">>)>> \o Lit(<<SP, Continuation>>)
  \o Lit(<<"--addr=">>) \o <<Field(<<"Addr">>)>> \o Lit(<<SP, Continuation>>)
  \o Lit(<<"--status-addr=">>) \o <<Field(<<"StatusAddr">>)>> \o Lit(<<SP, Continuation>>)
  \o Lit(<<"--data-dir=">>) \o <<Field(<<"DataDir">>)>> \o Lit(<<SP, Continuation>>)
  \o Lit(<<"--capacity=">>) \o <<Field(<<"Capacity">>)>> \o Lit(<<SP, Continuation>>)
  \o Lit(<<ConfigFlag>>)

StoreLabelsPart ==
  Lit(<<IfStoreLabelsStmt, NL>>)
  \o Lit(<<"  ", LabelsAssign, "--labels", SP, "${STORE_LABELS}", SP, Quote, NL>>)
  \o Lit(<<"  ", ArgsAssign, "${ARGS}", "${LABELS}", Quote, NL>>)
  \o Lit(<<"fi", NL>>)

tikvStartScript ==
  Lit(<<NL, PodIdentityStmt>>) \o dnsAwaitPart \o Lit(<<NL>>)
  \o <<IfAction(<<"AcrossK8s">>, TRUE, TRUE)>> \o Lit(<<SP>>)
  \o <<TemplateAction("AcrossK8sSubscript")>> \o Lit(<<SP>>) \o <<EndAction(TRUE, FALSE)>>
  \o Lit(<<NL, NL>>)
  \o Lit(<<ArgsAssign>>) \o BaseFlags \o Lit(<<Quote, NL>>)
  \o <<IfAction(<<"ExtraArgs">>, TRUE, FALSE)>>
  \o Lit(<<NL, ArgsAssign, "${ARGS}", SP>>) \o <<Field(<<"ExtraArgs">>)>> \o Lit(<<Quote, NL>>)
  \o <<EndAction(TRUE, FALSE)>>
  \o Lit(<<NL, NL>>)
  \o StoreLabelsPart
  \o Lit(<<NL>>)
  \o Lit(<<EchoStartingStmt, NL>>)
  \o Lit(<<EchoOpen, "/tikv-server", SP, "${ARGS}", Quote, NL>>)
  \o Lit(<<"exec", SP, "/tikv-server", SP, "${ARGS}", NL>>)

\* faulty variant: without the flag the marker is left in place
replaceOnlyWithLocalIpMatch(startScript, withLocalIpMatch) ==
  IF withLocalIpMatch
  THEN StringsReplaceAll(startScript, dnsAwaitPart, tikvWaitForDnsIpMatchSubScript)
  ELSE startScript

replaceTikvStartScriptDnsAwaitPart(startScript, withLocalIpMatch) ==
  IF withLocalIpMatch
  THEN StringsReplaceAll(startScript, dnsAwaitPart, tikvWaitForDnsIpMatchSubScript)
  ELSE StringsReplaceAll(startScript, dnsAwaitPart, tikvWaitForDnsOnlySubScript)

(***************************************************************************)
(* RenderTiKVStartScript, lines 93-104.                                    *)
(***************************************************************************)
\* faulty variant: the common script is appended instead of prepended
StartScriptSourceCommonLast(commonScript, t) ==
  replaceTikvStartScriptDnsAwaitPart(tikvStartScript, WaitForDnsNameIpMatchOnStartup(t))
  \o commonScript

\* the text handed to the second Parse
StartScriptSource(commonScript, t) ==
  commonScript
  \o replaceTikvStartScriptDnsAwaitPart(tikvStartScript, WaitForDnsNameIpMatchOnStartup(t))

\* renderTemplateFunc: the buffer is returned only when Execute succeeded
renderTemplateFunc(tpl, m) ==
  LET r == IF tpl.err # NoError
           THEN [out |-> <<>>, err |-> ExecError]
           ELSE Execute(tpl.root, tpl.defs, m)
  IN IF r.err # NoError
     THEN [panic |-> FALSE, script |-> <<>>, err |-> r.err]
     ELSE [panic |-> FALSE, script |-> r.out, err |-> NoError]

Panic == [panic |-> TRUE, script |-> <<>>, err |-> NoError]

RenderWith(commonScript, t) ==
  LET sub == TemplateParse(TemplateNew, tikvStartSubScript) IN
  IF MustPanics(sub) THEN Panic
  ELSE LET tikvStartScriptTpl == TemplateParse(sub, StartScriptSource(commonScript, t)) IN
       IF MustPanics(tikvStartScriptTpl) THEN Panic
       ELSE renderTemplateFunc(tikvStartScriptTpl, TiKVStartScriptModel(t))

RenderTiKVStartScript(t) == RenderWith(componentCommonScript, t)

(***************************************************************************)
(* Execution of the rendered script by the shell.                          *)
(***************************************************************************)
Unset == <<"<unset>">>
NoSleep == <<>>

ShellVars ==
  {"POD_NAME", "CAPACITY", "STORE_LABELS", "TIKV_POD_NAME", "pd_url", "encoded_domain_url",
   "discovery_url", "componentDomain", "waitThreshold", "result", "ARGS", "LABELS", "pipefail"}

\* values the container gives STORE_LABELS
StoreLabelsValues == {Unset, <<>>, <<"zone=a">>}

\* answers of the discovery service to a successful request
Responses == {<<"http://", "pd-a", ":", "2379">>, <<"pd-b", ":", "2379">>}

InitialEnv(labels) ==
  [v \in ShellVars |->
     IF v = "POD_NAME" THEN <<"basic-tikv-0">>
     ELSE IF v = "CAPACITY" THEN <<"0">>
     ELSE IF v = "STORE_LABELS" THEN labels
     ELSE IF v = "pipefail" THEN <<"off">>
     ELSE Unset]

\* ${X} in a word
VarRefs ==
  {"${ARGS}", "${LABELS}", "${STORE_LABELS}", "${result}", "${TIKV_POD_NAME}", "${CAPACITY}"}

VarOf(tok) ==
  CASE tok = "${ARGS}" -> "ARGS"
    [] tok = "${LABELS}" -> "LABELS"
    [] tok = "${STORE_LABELS}" -> "STORE_LABELS"
    [] tok = "${result}" -> "result"
    [] tok = "${TIKV_POD_NAME}" -> "TIKV_POD_NAME"
    [] tok = "${CAPACITY}" -> "CAPACITY"

\* ${X:-}: empty when X is unset
ParamOrEmpty(e, v) == IF e[v] = Unset THEN <<>> ELSE e[v]

\* parameter expansion inside double quotes; backslash-newline is removed
ExpandToken(tok, e) ==
  IF tok \in VarRefs THEN ParamOrEmpty(e, VarOf(tok))
  ELSE IF tok = Continuation THEN <<>>
  ELSE <<tok>>

Expand(toks, e) ==
  The({Concat([i \in 1..Len(t) |-> ExpandToken(t[i], e)]) : t \in {toks}})

\* field splitting of an unquoted expansion: the words between blanks
IsWordStart(toks, i) == toks[i] \notin Spaces /\ (i = 1 \/ toks[i - 1] \in Spaces)

WordFrom(toks, i) ==
  SubSeq(toks, i, CHOOSE j \in i..Len(toks) :
                    /\ \A n \in i..j : toks[n] \notin Spaces
                    /\ (j = Len(toks) \/ toks[j + 1] \in Spaces))

WordsOf(toks, starts) ==
  [n \in 1..Cardinality(starts) |->
     WordFrom(toks, CHOOSE x \in starts : Cardinality({y \in starts : y <= x}) = n)]

Words(toks) ==
  The({The({WordsOf(t, starts) : starts \in {{i \in 1..Len(t) : IsWordStart(t, i)}}}) :
         t \in {toks}})

\* first index from i on that satisfies P, Len + 1 when there is none
FirstFrom(toks, i, P(_)) ==
  CHOOSE j \in i..(Len(toks) + 1) :
    /\ j = Len(toks) + 1 \/ P(toks[j])
    /\ \A n \in i..(j - 1) : ~P(toks[n])

IsNotSpace(tok) == tok \notin Spaces
IsNewline(tok) == tok = NL
IsQuote(tok) == tok = Quote
IsDone(tok) == tok = "done"
IsFi(tok) == tok = "fi"

\* start of the statement at or after i
StmtAt(toks, i) == FirstFrom(toks, i, IsNotSpace)
LineEnd(toks, i) == FirstFrom(toks, i, IsNewline)
NextStmt(toks, i) == StmtAt(toks, LineEnd(toks, i) + 1)

\* exit status of a pipeline
PipelineStatus(statuses, pipefail) ==
  IF pipefail /\ \E i \in 1..Len(statuses) : statuses[i] # 0
  THEN statuses[CHOOSE i \in 1..Len(statuses) :
                  statuses[i] # 0 /\ \A j \in (i + 1)..Len(statuses) : statuses[j] = 0]
  ELSE statuses[Len(statuses)]

\* sed 's/http:\/\///g'
SedStripScheme(toks) == SelectSeq(toks, LAMBDA t : t # "http://")

\* the first token of the statement the shell is at
CurrentStmt == IF pc = "running" /\ ip <= Len(script) THEN script[ip] ELSE "<none>"

(***************************************************************************)
(* State machine: one render call, then one run of the rendered script.    *)
(***************************************************************************)
Init ==
  /\ tc \in TidbClusters
  /\ common = componentCommonScript
  /\ pc = "start"
  /\ script = <<>>
  /\ err = NoError
  /\ ip = 0
  /\ env = InitialEnv(Unset)
  /\ attempts = 0
  /\ slept = NoSleep
  /\ out = <<>>
  /\ argv = <<>>

\* the call of RenderTiKVStartScript
Render ==
  /\ pc = "start"
  /\ LET r == RenderWith(common, tc)
     IN /\ pc' = IF r.panic THEN "panicked" ELSE "rendered"
        /\ script' = r.script
        /\ err' = r.err
  /\ UNCHANGED <<tc, common, ip, env, attempts, slept, out, argv>>

\* the container starts the script with its environment
Start(labels) ==
  /\ pc = "rendered"
  /\ err = NoError
  /\ pc' = "running"
  /\ ip' = StmtAt(script, 1)
  /\ env' = InitialEnv(labels)
  /\ UNCHANGED <<tc, common, script, err, attempts, slept, out, argv>>

Advance == ip' = NextStmt(script, ip)

\* componentCommonScript: sets the shell options
RunCommonScript ==
  /\ CurrentStmt = CommonScriptStmt
  /\ env' = [env EXCEPT !["pipefail"] = <<"on">>]
  /\ Advance
  /\ UNCHANGED <<tc, common, pc, script, err, attempts, slept, out, argv>>

\* TIKV_POD_NAME=${POD_NAME:-$HOSTNAME}
RunPodIdentity ==
  /\ CurrentStmt = PodIdentityStmt
  /\ env' = [env EXCEPT !["TIKV_POD_NAME"] = ParamOrEmpty(env, "POD_NAME")]
  /\ Advance
  /\ UNCHANGED <<tc, common, pc, script, err, attempts, slept, out, argv>>

PlainAssigns == {"pd_url=", "discovery_url=", "componentDomain=", "waitThreshold="}

AssignedVar(tok) ==
  CASE tok = "pd_url=" -> "pd_url"
    [] tok = "discovery_url=" -> "discovery_url"
    [] tok = "componentDomain=" -> "componentDomain"
    [] tok = "waitThreshold=" -> "waitThreshold"
    [] tok = ArgsAssign -> "ARGS"
    [] tok = LabelsAssign -> "LABELS"

\* name=value, the value running to the end of the line
RunAssign ==
  /\ CurrentStmt \in PlainAssigns
  /\ env' = [env EXCEPT ![AssignedVar(CurrentStmt)] =
               Expand(SubSeq(script, ip + 1, LineEnd(script, ip) - 1), env)]
  /\ Advance
  /\ UNCHANGED <<tc, common, pc, script, err, attempts, slept, out, argv>>

\* encoded_domain_url=$(echo $pd_url | base64 | ...)
RunEncode ==
  /\ CurrentStmt = EncodeStmt
  /\ env' = [env EXCEPT !["encoded_domain_url"] = <<"base64(">> \o env["pd_url"] \o <<")">>]
  /\ Advance
  /\ UNCHANGED <<tc, common, pc, script, err, attempts, slept, out, argv>>

\* nsLookupCmd="..."
RunNsLookup ==
  /\ CurrentStmt = NsLookupStmt
  /\ Advance
  /\ UNCHANGED <<tc, common, pc, script, err, env, attempts, slept, out, argv>>

\* componentCommonWaitForDnsIpMatchScript: the name resolves to a pod IP, or
\* the wait threshold passes and the script exits
RunDnsWait(matched) ==
  /\ CurrentStmt = DnsIpMatchLoopStmt
  /\ IF matched
     THEN pc' = pc /\ Advance
     ELSE pc' = "exited" /\ ip' = ip
  /\ UNCHANGED <<tc, common, script, err, env, attempts, slept, out, argv>>

\* index of the statement after the done that closes the loop opened at i
AfterDone(toks, i) == NextStmt(toks, FirstFrom(toks, i, IsDone))

\* until result=$(wget ... | sed ...); do
RunPoll(wgetStatus, response) ==
  /\ CurrentStmt = UntilStmt
  /\ LET body == IF wgetStatus = 0 THEN response ELSE <<>>
         status == PipelineStatus(<<wgetStatus, 0>>, env["pipefail"] = <<"on">>)
     IN /\ env' = [env EXCEPT !["result"] = SedStripScheme(body)]
        /\ IF status = 0
           THEN ip' = AfterDone(script, ip) /\ attempts' = attempts
           ELSE Advance /\ attempts' = Min(attempts + 1, MaxAttempts)
  /\ slept' = NoSleep
  /\ UNCHANGED <<tc, common, pc, script, err, out, argv>>

\* echo "..."
RunEcho ==
  /\ CurrentStmt \in {EchoWaitStmt, EchoStartingStmt, EchoOpen}
  /\ out' = IF CurrentStmt = EchoOpen
            THEN Expand(SubSeq(script, ip + 1, FirstFrom(script, ip, IsQuote) - 1), env)
            ELSE <<CurrentStmt>>
  /\ Advance
  /\ UNCHANGED <<tc, common, pc, script, err, env, attempts, slept, argv>>

\* sleep $((RANDOM % 5))
RunSleep(random) ==
  /\ CurrentStmt = SleepStmt
  /\ slept' = <<random % 5>>
  /\ Advance
  /\ UNCHANGED <<tc, common, pc, script, err, env, attempts, out, argv>>

\* done: back to the condition of the loop
RunDone ==
  /\ CurrentStmt = "done"
  /\ ip' = CHOOSE j \in 1..ip :
             script[j] = UntilStmt /\ \A n \in (j + 1)..ip : script[n] # UntilStmt
  /\ UNCHANGED <<tc, common, pc, script, err, env, attempts, slept, out, argv>>

\* NAME="..."
RunQuotedAssign ==
  /\ CurrentStmt \in {ArgsAssign, LabelsAssign}
  /\ env' = [env EXCEPT ![AssignedVar(CurrentStmt)] =
               Expand(SubSeq(script, ip + 1, FirstFrom(script, ip, IsQuote) - 1), env)]
  /\ Advance
  /\ UNCHANGED <<tc, common, pc, script, err, attempts, slept, out, argv>>

\* if [ ! -z "${STORE_LABELS:-}" ]; then
RunIfStoreLabels ==
  /\ CurrentStmt = IfStoreLabelsStmt
  /\ IF ParamOrEmpty(env, "STORE_LABELS") # <<>>
     THEN Advance
     ELSE ip' = NextStmt(script, FirstFrom(script, ip, IsFi))
  /\ UNCHANGED <<tc, common, pc, script, err, env, attempts, slept, out, argv>>

RunFi ==
  /\ CurrentStmt = "fi"
  /\ Advance
  /\ UNCHANGED <<tc, common, pc, script, err, env, attempts, slept, out, argv>>

\* exec /tikv-server ${ARGS}
RunExec ==
  /\ CurrentStmt = "exec"
  /\ argv' = Words(Expand(SubSeq(script, ip + 1, LineEnd(script, ip) - 1), env))
  /\ pc' = "exec"
  /\ UNCHANGED <<tc, common, script, err, ip, env, attempts, slept, out>>

RunStep ==
  \/ RunCommonScript
  \/ RunPodIdentity
  \/ RunAssign
  \/ RunEncode
  \/ RunNsLookup
  \/ \E matched \in BOOLEAN : RunDnsWait(matched)
  \/ RunEcho
  \/ RunDone
  \/ RunQuotedAssign
  \/ RunIfStoreLabels
  \/ RunFi
  \/ RunExec

Next ==
  \/ Render
  \/ \E labels \in StoreLabelsValues : Start(labels)
  \/ RunStep
  \/ \E wgetStatus \in {0, 4}, response \in Responses : RunPoll(wgetStatus, response)
  \/ \E random \in 0..RandomMax : RunSleep(random)

\* every configuration, rendered
Spec == Init /\ [][Render]_vars

\* the configurations whose script is run: the fields that only change a
\* value inside an argument are fixed
RunClusters ==
  {t \in TidbClusters :
     /\ t.Cluster = NoCluster /\ t.HasPD
     /\ ~t.PreferIPv6 /\ t.ClusterDomain = <<>> /\ t.DataSubDir = <<>>
     /\ t.StartTimeout = 30}

RunInit == Init /\ tc \in RunClusters

RunSpec == RunInit /\ [][Next]_vars

\* the shell runs the statement it is at; whether a request succeeds is up to
\* the discovery service
FairRunSpec ==
  RunSpec /\ WF_vars(RunStep) /\ WF_vars(\E random \in 0..RandomMax : RunSleep(random))

(***************************************************************************)
(* Fragments with a defect.  componentCommonScript is text of common.go;   *)
(* a defect in it is the "malformed fragment text" of the error taxonomy.  *)
(***************************************************************************)
\* an action left open: the source does not parse
MalformedCommonScript ==
  componentCommonScript \o <<IfAction(<<"AcrossK8s">>, FALSE, FALSE)>>

\* a field the model does not have: the source parses and Execute fails
\* after the text before the field has been written
UnsubstitutableCommonScript ==
  Lit(<<CommonScriptStmt>>) \o <<Field(<<"NoSuchField">>)>> \o Lit(<<NL>>)

CommonScripts ==
  {componentCommonScript, MalformedCommonScript, UnsubstitutableCommonScript}

FragmentInit ==
  /\ tc \in RunClusters
  /\ common \in CommonScripts
  /\ pc = "start"
  /\ script = <<>>
  /\ err = NoError
  /\ ip = 0
  /\ env = InitialEnv(Unset)
  /\ attempts = 0
  /\ slept = NoSleep
  /\ out = <<>>
  /\ argv = <<>>

FragmentSpec == FragmentInit /\ [][Render]_vars

(***************************************************************************)
(* Properties of the rendered text.                                        *)
(***************************************************************************)
Rendered == pc = "rendered" /\ err = NoError

Count(text, sub) == Cardinality(Occurrences(sub, text))

IsArgEnd(tok) == tok \in Spaces \cup {Quote}

\* the value written after the first occurrence of flag, <<>> without one
FlagValue(text, flag) ==
  LET i == IndexOf(text, <<flag>>)
  IN IF i = 0 THEN <<>> ELSE SubSeq(text, i + 1, FirstFrom(text, i, IsArgEnd) - 1)

\* m[1], m[2], ... all occur in text, in this order
InOrder(text, m) ==
  /\ \A i \in 1..Len(m) : IndexOf(text, <<m[i]>>) > 0
  /\ \A i \in 1..(Len(m) - 1) : IndexOf(text, <<m[i]>>) < IndexOf(text, <<m[i + 1]>>)

OwnPDAddress == <<tc.Name, "-pd", ":", "2379">>
ReferencePDAddress == <<tc.Cluster, "-pd", ":", "2379">>
HeterogeneousWithoutLocalPD == tc.Cluster # NoCluster /\ ~tc.HasPD
WaitFlagSet == \E i \in 1..Len(tc.StartScriptV2FeatureFlags) :
                 tc.StartScriptV2FeatureFlags[i] = "WaitForDnsNameIpMatch"
DynamicEnabled == tc.EnableDynamicConfiguration = "true"

ExpectedAdvertiseHost ==
  <<"${TIKV_POD_NAME}", ".", tc.Name, "-tikv-peer", ".", tc.Namespace, ".", "svc">>
  \o (IF tc.ClusterDomain # <<>> THEN <<".">> \o tc.ClusterDomain ELSE <<>>)

\* C1: the value of --pd is ${result} for a cross-cluster configuration (also
\* when it is heterogeneous without a local PD), otherwise the PD address of
\* the referenced cluster when heterogeneous without a local PD, otherwise
\* the PD address of the cluster itself.
C1_PDAddrBranchOrder ==
  Rendered =>
    FlagValue(script, "--pd=") =
      IF tc.AcrossK8s THEN <<"${result}">>
      ELSE IF HeterogeneousWithoutLocalPD THEN ReferencePDAddress
      ELSE OwnPDAddress

C1_Witness ==
  /\ Rendered /\ tc.AcrossK8s /\ tc.Cluster = "ref" /\ ~tc.HasPD
  /\ FlagValue(script, "--pd=") = <<"${result}">>

\* C2 as stated: a cross-cluster render contains ${result} and nowhere the
\* literal PD address of the cluster.
C2_NoLiteralAddressAnywhere ==
  (Rendered /\ tc.AcrossK8s) =>
    /\ Contains(script, <<"${result}">>)
    /\ ~Contains(script, OwnPDAddress)

\* C2 amended: a cross-cluster render has ${result} as the value of --pd, not
\* the literal PD address, and it does contain the literal PD address, as the
\* value assigned to pd_url in the discovery subscript.
C2_LiteralAddressOnlyInPdUrl ==
  (Rendered /\ tc.AcrossK8s) =>
    /\ Contains(script, <<"${result}">>)
    /\ FlagValue(script, "--pd=") = <<"${result}">>
    /\ Contains(script, <<"pd_url=">> \o OwnPDAddress \o <<NL>>)

C2_Witness ==
  /\ Rendered /\ tc.AcrossK8s
  /\ Contains(script, <<"pd_url=", "basic", "-pd", ":", "2379", NL>>)
  /\ Contains(script, <<"--pd=", "${result}", SP>>)

\* C3: the discovery polling loop is in the script exactly once when the
\* cluster is cross-cluster and not at all otherwise.
C3_DiscoveryLoopIffAcrossK8s ==
  Rendered =>
    LET n == IF tc.AcrossK8s THEN 1 ELSE 0
    IN /\ Count(script, <<UntilStmt>>) = n
       /\ Count(script, <<"done">>) = n
       /\ Count(script, <<SleepStmt>>) = n
       /\ Count(script, <<"discovery_url=">>) = n
       /\ Count(script, <<"pd_url=">>) = n

C3_Witness ==
  /\ Rendered /\ ~tc.AcrossK8s /\ tc.Cluster = "ref" /\ ~tc.HasPD
  /\ Count(script, <<UntilStmt>>) = 0

\* C4: the DNS-await fragment, with the advertise host and the start timeout,
\* is in the script exactly when the flag list contains WaitForDnsNameIpMatch;
\* otherwise nothing stands in its place; the dnsAwaitPart marker is never
\* left in the script.
C4_DnsAwaitIffFlag ==
  Rendered =>
    LET n == IF WaitFlagSet THEN 1 ELSE 0
    IN /\ Count(script, <<PodIdentityStmt, NL, "componentDomain=">> \o ExpectedAdvertiseHost
                        \o <<NL, "waitThreshold=", ToString(tc.StartTimeout), NL>>) = n
       /\ Count(script, <<"componentDomain=">>) = n
       /\ Count(script, <<"waitThreshold=">>) = n
       /\ Count(script, <<NsLookupStmt>>) = n
       /\ Count(script, <<DnsIpMatchLoopStmt>>) = n
       /\ ~WaitFlagSet =>
            \/ Contains(script, <<PodIdentityStmt, NL, NL, ArgsAssign>>)
            \/ Contains(script, <<PodIdentityStmt, NL, "pd_url=">>)
       /\ \A i \in 1..Len(script) : script[i] # dnsAwaitPart[1].v[1]

C4_Witness ==
  /\ Rendered /\ tc.AcrossK8s /\ tc.Cluster = "ref"
  /\ tc.StartScriptV2FeatureFlags = <<"PreferPDAddressesOverDiscovery", "WaitForDnsNameIpMatch">>
  /\ Count(script, <<DnsIpMatchLoopStmt>>) = 1

\* C5: the line appending the extra arguments is in the script exactly when
\* dynamic configuration is enabled (not nil and true); it then holds one
\* --advertise-status-addr flag, follows the base assignment that ends with
\* --config=/etc/tikv/tikv.toml, is joined to ${ARGS} by one blank, and comes
\* before the store-labels append.
C5_ExtraArgsIffDynamic ==
  Rendered =>
    LET n == IF DynamicEnabled THEN 1 ELSE 0
    IN /\ Count(script, <<"--advertise-status-addr=">>) = n
       /\ Count(script, <<ArgsAssign, "${ARGS}", SP>>) = n
       /\ Count(script, <<ConfigFlag, Quote, NL, ArgsAssign, "${ARGS}", SP,
                          "--advertise-status-addr=">>) = n
       /\ Count(script, <<ConfigFlag, Quote, NL, NL, IfStoreLabelsStmt>>) = 1 - n
       /\ DynamicEnabled =>
            /\ InOrder(script, <<ConfigFlag, "--advertise-status-addr=", IfStoreLabelsStmt>>)
            /\ Contains(script, <<Quote, NL, NL, IfStoreLabelsStmt>>)

C5_Witness ==
  /\ Rendered /\ tc.EnableDynamicConfiguration = "true"
  /\ Count(script, <<ArgsAssign, "${ARGS}", SP, "--advertise-status-addr=">>) = 1

C5_WitnessNil ==
  /\ Rendered /\ tc.EnableDynamicConfiguration = "nil"
  /\ Count(script, <<"--advertise-status-addr=">>) = 0

DnsMarkers == IF WaitFlagSet THEN <<"componentDomain=", DnsIpMatchLoopStmt>> ELSE <<>>
DiscoveryMarkers == IF tc.AcrossK8s THEN <<"pd_url=", UntilStmt, "done">> ELSE <<>>

\* C6 as stated: pod identity, DNS-await, discovery, common shared fragments,
\* argument assembly, in this order.
C6_CommonBeforeArguments ==
  Rendered =>
    InOrder(script, <<PodIdentityStmt>> \o DnsMarkers \o DiscoveryMarkers
                    \o <<CommonScriptStmt, ArgsAssign>>)

\* C6 amended: the common shared fragment comes first, then pod identity,
\* DNS-await (if active), discovery (if cross-cluster), argument assembly.
C6_CommonFirst ==
  Rendered =>
    /\ script[1] = CommonScriptStmt
    /\ InOrder(script, <<CommonScriptStmt, PodIdentityStmt>> \o DnsMarkers \o DiscoveryMarkers
                       \o <<ArgsAssign, IfStoreLabelsStmt, EchoStartingStmt, "exec">>)

C6_Witness ==
  /\ Rendered /\ tc.AcrossK8s /\ WaitFlagSet
  /\ InOrder(script, <<CommonScriptStmt, PodIdentityStmt, DnsIpMatchLoopStmt, UntilStmt, ArgsAssign>>)

\* C10: the advertise host is ${TIKV_POD_NAME}.<peer service>.<namespace>.svc
\* with .<cluster domain> appended exactly when the domain is not empty; the
\* advertise address is the host with port 20160; with dynamic configuration
\* enabled the --advertise-status-addr value is the same host with port 20180.
C10_AdvertiseHosts ==
  Rendered =>
    /\ FlagValue(script, "--advertise-addr=") = ExpectedAdvertiseHost \o <<":", "20160">>
    /\ WaitFlagSet => FlagValue(script, "componentDomain=") = ExpectedAdvertiseHost
    /\ DynamicEnabled =>
         FlagValue(script, "--advertise-status-addr=") = ExpectedAdvertiseHost \o <<":", "20180">>
    /\ (tc.ClusterDomain = <<>>) =
         (FlagValue(script, "--advertise-addr=")
            = <<"${TIKV_POD_NAME}", ".", tc.Name, "-tikv-peer", ".", tc.Namespace, ".", "svc",
                ":", "20160">>)

C10_Witness ==
  /\ Rendered /\ DynamicEnabled /\ tc.ClusterDomain = <<"cluster.local">>
  /\ FlagValue(script, "--advertise-status-addr=")
       = <<"${TIKV_POD_NAME}", ".", "basic", "-tikv-peer", ".", "ns", ".", "svc", ".",
           "cluster.local", ":", "20180">>

(***************************************************************************)
(* Properties of the render call when a fragment has a defect.             *)
(***************************************************************************)
Returned == pc = "rendered"

\* C7 as stated: a fragment that fails to parse or to substitute makes the
\* call return an error and no script, without aborting; no other error.
C7_EveryDefectIsReturned ==
  /\ (pc # "start" /\ common # componentCommonScript) =>
       (Returned /\ err # NoError /\ script = <<>>)
  /\ (Returned /\ err # NoError) => common # componentCommonScript

\* C7 amended: a fragment that fails to parse makes the call panic (the
\* caller gets neither a script nor an error); a fragment that parses and
\* fails to substitute makes the call return an error and no script; a
\* render of well-formed fragments returns a script and no error.
C7_ParsePanicsExecuteReturns ==
  pc # "start" =>
    /\ common = MalformedCommonScript =>
         (pc = "panicked" /\ script = <<>> /\ err = NoError)
    /\ common = UnsubstitutableCommonScript =>
         (Returned /\ err # NoError /\ script = <<>>)
    /\ common = componentCommonScript =>
         (Returned /\ err = NoError /\ script # <<>>)

C7_Witness == pc = "panicked" /\ common = MalformedCommonScript

C7_WitnessReturned ==
  Returned /\ common = UnsubstitutableCommonScript /\ err # NoError /\ script = <<>>

(***************************************************************************)
(* Properties of the run of the rendered script.                           *)
(***************************************************************************)
At(stmt) == pc = "running" /\ ip <= Len(script) /\ script[ip] = stmt

\* what a successful request leaves in result
PollResults == {<<"pd-a", ":", "2379">>, <<"pd-b", ":", "2379">>}

C8_ExecOnlyAfterPoll ==
  (pc = "exec" /\ tc.AcrossK8s) =>
    /\ env["result"] \in PollResults
    /\ argv[1] = <<"/tikv-server">>
    /\ argv[2] = <<"--pd=">> \o env["result"]
    /\ out = <<"/tikv-server", SP>> \o env["ARGS"]

C8_LoopStep ==
  /\ At(UntilStmt) =>
       /\ pc' = "running"
       /\ \/ env'["result"] = <<>> /\ script[ip'] = EchoWaitStmt
          \/ env'["result"] \in PollResults /\ script[ip'] = ArgsAssign
  /\ At(EchoWaitStmt) => (out' = <<EchoWaitStmt>> /\ At(SleepStmt)')
  /\ At(SleepStmt) => (slept' \in {<<n>> : n \in 0..4} /\ At("done")')
  /\ At("done") => At(UntilStmt)'

C8_PollSucceeded ==
  /\ tc.AcrossK8s /\ At(ArgsAssign)
  /\ env["result"] \in PollResults /\ env["ARGS"] = Unset

\* C8: the script of a cross-cluster member execs the binary only after a
\* successful request, with the result of that request as the value of --pd;
\* a failed request is followed by the wait message, a sleep of 0 to 4
\* seconds and the next request, without a limit; once a request has
\* succeeded the script goes on to echo the command and to exec it.
C8_DiscoveryLoop ==
  /\ []C8_ExecOnlyAfterPoll
  /\ [][C8_LoopStep]_vars
  /\ (C8_PollSucceeded ~> pc = "exec")

C8_Witness ==
  /\ pc = "exec" /\ tc.AcrossK8s /\ attempts = MaxAttempts
  /\ argv[2] = <<"--pd=", "pd-a", ":", "2379">>

LastGenerationArgument ==
  IF DynamicEnabled
  THEN <<"--advertise-status-addr=", "basic-tikv-0">> \o Tail(ExpectedAdvertiseHost)
       \o <<":", "20180">>
  ELSE <<ConfigFlag>>

StoreLabelsSet == env["STORE_LABELS"] \notin {Unset, <<>>}

\* C9: --labels is on the command line exactly when STORE_LABELS is set and
\* not empty; it is then a word of its own after the generation-time
\* arguments, the argument before it is passed unchanged, and the command
\* echoed is the command exec'ed.
C9_StoreLabelsOwnFlag ==
  pc = "exec" =>
    /\ (\E i \in 1..Len(argv) : argv[i] = <<"--labels">>) <=> StoreLabelsSet
    /\ StoreLabelsSet =>
         \E i \in 1..(Len(argv) - 2) :
           /\ argv[i] = LastGenerationArgument
           /\ argv[i + 1] = <<"--labels">>
           /\ argv[i + 2] = env["STORE_LABELS"]
    /\ ~StoreLabelsSet => argv[Len(argv)] = LastGenerationArgument
    /\ Words(out) = argv

====
